---- MODULE Spec2Model ----
(***************************************************************************)
(* Tag lifecycle of scale8/tag-manager: the mutation resolvers of          *)
(* api/src/managers/tag/TagManager.ts (updateRuleGroupsOrder, deleteTag,   *)
(* updateTag, duplicateTag, createTag) over a document store holding Tags, *)
(* Revisions and RuleGroups.  Every resolver is a sequence of awaited      *)
(* steps; a request is a record in `calls` whose pc is its position.       *)
(***************************************************************************)
EXTENDS Integers, Sequences, FiniteSets, TLC

(* ------------------------------ bounds --------------------------------- *)
\* ids the store can hand out to Tags (ObjectIds are never reused)
MaxTags == 3
\* ids the store can hand out to RuleGroups
MaxRuleGroups == 3
\* longest new_order a request carries
MaxOrderLen == 2
\* requests issued in one behaviour
MaxCalls == 2
\* optional fields one updateTag request of the update study carries
MaxPresent == 1

(* --------------------------- value domains ----------------------------- *)
Procs == {1, 2}
Revs == {1, 2}
Names == {"a", "b"}
Dims == {0, 1}
TagTypes == {"HEAD", "PLACEMENT"}
TagIdSpace == 1..MaxTags
RuleGroupIdSpace == 1..MaxRuleGroups

\* an optional GraphQL input field: <<>> when absent, <<v>> when present
Opt(S) == {<<>>} \cup {<<v>> : v \in S}
Present(o) == Len(o) = 1
OrDefault(o, d) == IF Present(o) THEN o[1] ELSE d

Range(s) == {s[i] : i \in 1..Len(s)}
SeqsUpTo(S, n) == UNION {[1..k -> S] : k \in 0..n}

RECURSIVE SelectSeqNot(_, _)
\* s without every occurrence of x, order kept
SelectSeqNot(s, x) ==
    IF s = <<>> THEN <<>>
    ELSE IF Head(s) = x THEN SelectSeqNot(Tail(s), x)
         ELSE <<Head(s)>> \o SelectSeqNot(Tail(s), x)

(* ------------------------- ObjectId <-> string ------------------------- *)
\* A GraphQL ID is a hex string.  ObjectId.toString() always renders the
\* lower-case form; new ObjectId(s) accepts either case.
IdStrings == [id : RuleGroupIdSpace, upper : BOOLEAN]
toString(oid) == [id |-> oid, upper |-> FALSE]
ObjectId(s) == s.id
\* Array.prototype.indexOf(x) !== -1 : strict equality on the strings
IndexOfFound(arr, x) == \E i \in 1..Len(arr) : arr[i] = x

(* ------------------------------ state ---------------------------------- *)
VARIABLES
    tags,             \* Tag collection: id -> Tag document
    revisions,        \* Revision collection: id -> Revision document
    ruleGroups,       \* ids of the RuleGroup documents that exist
    nextTagId,        \* next fresh Tag id
    nextRuleGroupId,  \* next fresh RuleGroup id
    calls,            \* per request slot: the resolver invocation in flight
    ncalls            \* requests issued so far

vars == <<tags, revisions, ruleGroups, nextTagId, nextRuleGroupId, calls, ncalls>>

NullTag ==
    [id |-> 0, orgId |-> 0, tagCode |-> 0, revisionId |-> 0, type |-> "HEAD",
     ruleGroupIds |-> <<>>, name |-> "a", width |-> 0, height |-> 0,
     autoLoad |-> FALSE, isActive |-> FALSE]

NullRevision == [id |-> 0, orgId |-> 0, tagIds |-> <<>>]

IdleCall ==
    [op |-> "none", pc |-> "idle", args |-> <<>>, cap |-> "none",
     granted |-> FALSE, tag |-> NullTag, revision |-> NullRevision,
     newTag |-> NullTag, pending |-> {}, acks |-> {}, saves |-> <<>>,
     cascade |-> "none", result |-> "none", pre |-> <<>>,
     readAfter |-> {}, savedAfter |-> {}]

\* the persisted documents, as a request sees them when it starts
Snapshot == [tags |-> tags, revisions |-> revisions, ruleGroups |-> ruleGroups]

\* a Tag as it stands right after its constructor (width, height default 0,
\* autoLoad default false)
NewTag(id, rev, code, name, type, width, height, autoLoad) ==
    [id |-> id, orgId |-> rev.orgId, tagCode |-> code, revisionId |-> rev.id,
     type |-> type, ruleGroupIds |-> <<>>, name |-> name, width |-> width,
     height |-> height, autoLoad |-> autoLoad, isActive |-> TRUE]

\* the store before any request: one Tag (id 1) in Revision 1 with zero, one
\* or two RuleGroups, and an empty Revision 2 of another organisation
InitRuleGroupCounts == 0..2

Init ==
    \E n \in InitRuleGroupCounts, ty \in TagTypes :
        /\ tags = (1 :> [NewTag(1, [id |-> 1, orgId |-> 1], 1, "a", ty, 0, 0, FALSE)
                           EXCEPT !.ruleGroupIds = [i \in 1..n |-> i]])
        /\ revisions = [r \in Revs |->
                           [id |-> r, orgId |-> r,
                            tagIds |-> IF r = 1 THEN <<1>> ELSE <<>>]]
        /\ ruleGroups = 1..n
        /\ nextTagId = 2
        /\ nextRuleGroupId = n + 1
        /\ calls = [p \in Procs |-> IdleCall]
        /\ ncalls = 0

(* -------------------------- repository layer --------------------------- *)
\* findByIdThrows on the Tag / Revision repository: the document, or a throw
TagFound(id) == id \in DOMAIN tags
RevisionFound(id) == id \in DOMAIN revisions

\* save(): the whole in-memory document replaces the stored one
SavedTags(t) == [i \in DOMAIN tags \cup {t.id} |-> IF i = t.id THEN t ELSE tags[i]]
SavedRevisions(r) ==
    [i \in DOMAIN revisions \cup {r.id} |-> IF i = r.id THEN r ELSE revisions[i]]

\* the audit entry a save leaves behind
Audit(method, kind, id) == [method |-> method, kind |-> kind, id |-> id]

Finish(c, res) == [c EXCEPT !.pc = "done", !.result = res]

SetCall(p, c) == calls' = [calls EXCEPT ![p] = c]

DbUnchanged == UNCHANGED <<tags, revisions, ruleGroups, nextTagId, nextRuleGroupId>>

\* the request has written a Revision
SavedRevision(c) == \E i \in 1..Len(c.saves) : c.saves[i].kind = "Revision"

\* the other requests whose Revision save has already reached the store: a
\* request notes them when it reads the Revision (readAfter) and again when
\* it saves it (savedAfter)
RevisionSavers(p) == {q \in Procs \ {p} : SavedRevision(calls[q])}

\* a resolver starts: args is its GraphQL input, cap the capability it will
\* ask for; createTag hands in the Revision it has just read
StartCall(p, op, args, cap, found, tag, revision) ==
    /\ calls[p].pc = "idle"
    /\ ncalls < MaxCalls
    /\ ncalls' = ncalls + 1
    /\ LET c == [IdleCall EXCEPT !.op = op, !.args = args, !.cap = cap,
                                 !.pre = Snapshot,
                                 !.readAfter = RevisionSavers(p)]
       IN  SetCall(p, IF found
                      THEN [c EXCEPT !.pc = "auth", !.tag = tag, !.revision = revision]
                      ELSE Finish(c, "NotFound"))
    /\ DbUnchanged

(* --------------------------- authorization ----------------------------- *)
\* orgAuth.asUserWith<Cap>Access(ctx, orgId, continuation): the continuation
\* runs only when the collaborator grants the capability; a denial throws.
AuthGate(c, granted, entry) ==
    IF granted THEN [c EXCEPT !.granted = TRUE, !.pc = entry]
    ELSE Finish(c, "AuthDenied")

\* (deleteTag without its preview test)
EntryPc_IgnoresPreview(c) ==
    CASE c.op = "updateRuleGroupsOrder" -> "reorder"
      [] c.op = "deleteTag" -> "unlink_read"
      [] c.op = "updateTag" -> "update"
      [] c.op = "duplicateTag" -> "dup_readrev"
      [] c.op = "createTag" -> "create"

\* where each resolver's continuation starts
EntryPc(c) ==
    CASE c.op = "updateRuleGroupsOrder" -> "reorder"
      [] c.op = "deleteTag" -> IF c.args.preview = TRUE THEN "cascade" ELSE "unlink_read"
      [] c.op = "updateTag" -> "update"
      [] c.op = "duplicateTag" -> "dup_readrev"
      [] c.op = "createTag" -> "create"

Authorize(p) ==
    /\ calls[p].pc = "auth"
    /\ \E granted \in BOOLEAN :
           SetCall(p, AuthGate(calls[p], granted, EntryPc(calls[p])))
    /\ DbUnchanged
    /\ UNCHANGED ncalls

(* ----------------------- updateRuleGroupsOrder ------------------------- *)
ReorderInputs == [tag_id : TagIdSpace, new_order : SeqsUpTo(IdStrings, MaxOrderLen)]
\* the requests of a client that echoes ids as the API rendered them
CanonicalReorderInputs ==
    [tag_id : TagIdSpace,
     new_order : SeqsUpTo({toString(g) : g \in RuleGroupIdSpace}, MaxOrderLen)]

updateRuleGroupsOrder_Begin(p, Inputs) ==
    \E data \in Inputs :
        StartCall(p, "updateRuleGroupsOrder", data, "edit", TagFound(data.tag_id),
                  IF TagFound(data.tag_id) THEN tags[data.tag_id] ELSE NullTag,
                  NullRevision)

\* (a check of the lengths alone)
ReorderAccepted_LengthOnly(ruleGroupIds, new_order) ==
    Len(ruleGroupIds) = Len(new_order)

\* the length is the same and every item has been accounted for
ReorderAccepted(ruleGroupIds, new_order) ==
    /\ Len(ruleGroupIds) = Len(new_order)
    /\ \A i \in 1..Len(ruleGroupIds) : IndexOfFound(new_order, toString(ruleGroupIds[i]))

Reordered(new_order) == [i \in 1..Len(new_order) |-> ObjectId(new_order[i])]

updateRuleGroupsOrder_Body(p) ==
    LET c == calls[p] IN
    /\ c.pc = "reorder"
    /\ IF ReorderAccepted(c.tag.ruleGroupIds, c.args.new_order)
       THEN LET tag == [c.tag EXCEPT !.ruleGroupIds = Reordered(c.args.new_order)] IN
            /\ tags' = SavedTags(tag)
            /\ SetCall(p, Finish([c EXCEPT !.tag = tag,
                                    !.saves = Append(@, Audit("REORDER_LINKED_ENTITIES", "Tag", tag.id))],
                                 "ok"))
       ELSE /\ SetCall(p, Finish(c, "reOrderProblem"))
            /\ UNCHANGED tags
    /\ UNCHANGED <<revisions, ruleGroups, nextTagId, nextRuleGroupId, ncalls>>

(* ------------------------------ deleteTag ------------------------------ *)
DeleteInputs == [tag_id : TagIdSpace, preview : BOOLEAN]

\* (the resolver asks for edit access)
deleteTag_Begin_EditAccess(p) ==
    \E data \in DeleteInputs :
        StartCall(p, "deleteTag", data, "edit", TagFound(data.tag_id),
                  IF TagFound(data.tag_id) THEN tags[data.tag_id] ELSE NullTag,
                  NullRevision)

deleteTag_Begin(p) ==
    \E data \in DeleteInputs :
        StartCall(p, "deleteTag", data, "delete", TagFound(data.tag_id),
                  IF TagFound(data.tag_id) THEN tags[data.tag_id] ELSE NullTag,
                  NullRevision)

\* (a removal by position instead of by id)
UnlinkedTagIds_DropsLast(tagIds, id) ==
    IF tagIds = <<>> THEN <<>> ELSE SubSeq(tagIds, 1, Len(tagIds) - 1)

\* revision.tagIds.filter((_) => !_.equals(tag.id))
UnlinkedTagIds(tagIds, id) == SelectSeqNot(tagIds, id)

\* we need to first unlink: read the Revision and filter the Tag out of tagIds
deleteTag_Unlink(p) ==
    LET c == calls[p] IN
    /\ c.pc = "unlink_read"
    /\ IF RevisionFound(c.tag.revisionId)
       THEN LET revision == revisions[c.tag.revisionId] IN
            SetCall(p, [c EXCEPT !.pc = "unlink_save",
                                 !.readAfter = RevisionSavers(p),
                                 !.revision = [revision EXCEPT
                                     !.tagIds = UnlinkedTagIds(@, c.tag.id)]])
       ELSE SetCall(p, Finish(c, "NotFound"))
    /\ DbUnchanged
    /\ UNCHANGED ncalls

\* (the filtered Revision is never written back)
deleteTag_SaveRevision_Skipped(p) ==
    LET c == calls[p] IN
    /\ c.pc = "unlink_save"
    /\ SetCall(p, [c EXCEPT !.pc = "cascade"])
    /\ DbUnchanged
    /\ UNCHANGED ncalls

deleteTag_SaveRevision(p) ==
    LET c == calls[p] IN
    /\ c.pc = "unlink_save"
    /\ revisions' = SavedRevisions(c.revision)
    /\ SetCall(p, [c EXCEPT !.pc = "cascade", !.savedAfter = RevisionSavers(p),
                            !.saves = Append(@, Audit("DELETE_LINKED_ENTITY", "Revision", c.revision.id))])
    /\ UNCHANGED <<tags, ruleGroups, nextTagId, nextRuleGroupId, ncalls>>

\* the Tag and everything it owns
Owned(tag) == {<<"Tag", tag.id>>} \cup {<<"RuleGroup", g>> : g \in Range(tag.ruleGroupIds)}

\* deleteModelCascading(me, tag, previewMode): in preview mode it only
\* reports what would be deleted
deleteModelCascading_Start(p) ==
    LET c == calls[p] IN
    /\ c.pc = "cascade"
    /\ IF c.args.preview = TRUE
       THEN SetCall(p, Finish([c EXCEPT !.cascade = "preview", !.acks = Owned(c.tag)], "ok"))
       ELSE SetCall(p, [c EXCEPT !.cascade = "real", !.pc = "cascading",
                                 !.pending = Owned(c.tag)])
    /\ DbUnchanged
    /\ UNCHANGED ncalls

\* one entity of the cascade is deleted and acknowledged
deleteModelCascading_Step(p) ==
    LET c == calls[p] IN
    /\ c.pc = "cascading"
    /\ \E e \in c.pending :
        /\ tags' = IF e[1] = "Tag" THEN [i \in DOMAIN tags \ {e[2]} |-> tags[i]] ELSE tags
        /\ ruleGroups' = IF e[1] = "RuleGroup" THEN ruleGroups \ {e[2]} ELSE ruleGroups
        /\ LET d == [c EXCEPT !.pending = @ \ {e}, !.acks = @ \cup {e}] IN
           SetCall(p, IF d.pending = {} THEN Finish(d, "ok") ELSE d)
    /\ UNCHANGED <<revisions, nextTagId, nextRuleGroupId, ncalls>>

(* ------------------------------ updateTag ------------------------------ *)
\* TagUpdateInput, plus a `type` key a loosely typed caller may slip in
UpdateInputs ==
    [tag_id : TagIdSpace, name : Opt(Names), is_active : Opt(BOOLEAN),
     width : Opt(Dims), height : Opt(Dims), auto_load : Opt(BOOLEAN),
     type : Opt(TagTypes)]

NumPresent(data) ==
    Cardinality({k \in DOMAIN data \ {"tag_id"} : Present(data[k])})
\* requests carrying at most n optional fields
UpdateInputsUpTo(n) == {data \in UpdateInputs : NumPresent(data) <= n}
SingleFieldUpdateInputs == UpdateInputsUpTo(1)
FewFieldsUpdateInputs == UpdateInputsUpTo(MaxPresent)

updateTag_Begin(p, Inputs) ==
    \E data \in Inputs :
        StartCall(p, "updateTag", data, "edit", TagFound(data.tag_id),
                  IF TagFound(data.tag_id) THEN tags[data.tag_id] ELSE NullTag,
                  NullRevision)

\* (the allow-list with type in it)
UpdatableKeys_WithType == {"name", "width", "height", "auto_load", "is_active", "type"}

\* the keys updateTag lets bulkGQLSet apply
UpdatableKeys == {"name", "width", "height", "auto_load", "is_active"}

\* GraphQL key -> model property
GQLProp(key) ==
    CASE key = "auto_load" -> "autoLoad"
      [] key = "is_active" -> "isActive"
      [] key = "tag_code" -> "tagCode"
      [] OTHER -> key

\* Model.bulkGQLSet(data, keys): every listed key that is present in data is
\* copied onto the model, the others are left as they are
bulkGQLSet(tag, data, keys) ==
    [f \in DOMAIN tag |->
        LET ks == {k \in keys \cap DOMAIN data : GQLProp(k) = f /\ Present(data[k])}
        IN  IF ks # {} THEN data[CHOOSE k \in ks : TRUE][1] ELSE tag[f]]

\* (the check reads the type off the request instead of the stored Tag)
updateTag_Rejects_InputType(tag, data) ==
    data.type = <<"PLACEMENT">> /\ data.auto_load = <<TRUE>>

updateTag_Rejects(tag, data) == tag.type = "PLACEMENT" /\ data.auto_load = <<TRUE>>

updateTag_Body(p) ==
    LET c == calls[p] IN
    /\ c.pc = "update"
    /\ IF updateTag_Rejects(c.tag, c.args)
       THEN /\ SetCall(p, Finish(c, "ValidationFailed"))
            /\ UNCHANGED tags
       ELSE LET tag == bulkGQLSet(c.tag, c.args, UpdatableKeys) IN
            /\ tags' = SavedTags(tag)
            /\ SetCall(p, Finish([c EXCEPT !.tag = tag,
                                    !.saves = Append(@, Audit("UPDATE_PROPERTIES", "Tag", tag.id))],
                                 "ok"))
    /\ UNCHANGED <<revisions, ruleGroups, nextTagId, nextRuleGroupId, ncalls>>

(* ---------------------------- duplicateTag ----------------------------- *)
DuplicateInputs == [tag_id : TagIdSpace, name : Names]

\* the store can still hand out the ids a copy of this Tag needs
CanAllocate(nRuleGroups) ==
    /\ nextTagId <= MaxTags
    /\ nextRuleGroupId + nRuleGroups - 1 <= MaxRuleGroups

duplicateTag_Begin(p) ==
    \E data \in DuplicateInputs :
        /\ TagFound(data.tag_id) => CanAllocate(Len(tags[data.tag_id].ruleGroupIds))
        /\ StartCall(p, "duplicateTag", data, "create", TagFound(data.tag_id),
                     IF TagFound(data.tag_id) THEN tags[data.tag_id] ELSE NullTag,
                     NullRevision)

duplicateTag_ReadRevision(p) ==
    LET c == calls[p] IN
    /\ c.pc = "dup_readrev"
    /\ IF RevisionFound(c.tag.revisionId)
       THEN SetCall(p, [c EXCEPT !.pc = "dup_branch",
                                 !.readAfter = RevisionSavers(p),
                                 !.revision = revisions[c.tag.revisionId]])
       ELSE SetCall(p, Finish(c, "NotFound"))
    /\ DbUnchanged
    /\ UNCHANGED ncalls

\* createNewModelBranchFromModel(actor, tag, TagRepo): a persisted copy of the
\* Tag under a new id, with the same tagCode and its own copies of the
\* RuleGroups
createNewModelBranchFromModel(tag) ==
    [tag EXCEPT !.id = nextTagId,
                !.ruleGroupIds = [i \in 1..Len(tag.ruleGroupIds) |-> nextRuleGroupId + i - 1]]

duplicateTag_Branch(p) ==
    LET c == calls[p]
        newTag == createNewModelBranchFromModel(c.tag)
    IN
    /\ c.pc = "dup_branch"
    /\ tags' = SavedTags(newTag)
    /\ ruleGroups' = ruleGroups \cup Range(newTag.ruleGroupIds)
    /\ nextTagId' = nextTagId + 1
    /\ nextRuleGroupId' = nextRuleGroupId + Len(newTag.ruleGroupIds)
    /\ SetCall(p, [c EXCEPT !.pc = "dup_saverev", !.newTag = newTag])
    /\ UNCHANGED <<revisions, ncalls>>

\* (the source's id is appended instead of the copy's)
duplicateTag_SaveRevision_LinksSource(p) ==
    LET c == calls[p]
        revision == [c.revision EXCEPT !.tagIds = Append(@, c.tag.id)]
    IN
    /\ c.pc = "dup_saverev"
    /\ revisions' = SavedRevisions(revision)
    /\ SetCall(p, [c EXCEPT !.pc = "dup_savetag", !.revision = revision,
                            !.savedAfter = RevisionSavers(p),
                            !.saves = Append(@, Audit("ADD_LINKED_ENTITY", "Revision", revision.id))])
    /\ UNCHANGED <<tags, ruleGroups, nextTagId, nextRuleGroupId, ncalls>>

\* (the copy's id is appended to the Revision as it is stored at the time of
\* the save, not to the copy read earlier)
duplicateTag_SaveRevision_OnStored(p) ==
    LET c == calls[p]
        revision == [revisions[c.revision.id] EXCEPT !.tagIds = Append(@, c.newTag.id)]
    IN
    /\ c.pc = "dup_saverev"
    /\ revisions' = SavedRevisions(revision)
    /\ SetCall(p, [c EXCEPT !.pc = "dup_savetag", !.revision = revision,
                            !.savedAfter = RevisionSavers(p),
                            !.saves = Append(@, Audit("ADD_LINKED_ENTITY", "Revision", revision.id))])
    /\ UNCHANGED <<tags, ruleGroups, nextTagId, nextRuleGroupId, ncalls>>

duplicateTag_SaveRevision(p) ==
    LET c == calls[p]
        revision == [c.revision EXCEPT !.tagIds = Append(@, c.newTag.id)]
    IN
    /\ c.pc = "dup_saverev"
    /\ revisions' = SavedRevisions(revision)
    /\ SetCall(p, [c EXCEPT !.pc = "dup_savetag", !.revision = revision,
                            !.savedAfter = RevisionSavers(p),
                            !.saves = Append(@, Audit("ADD_LINKED_ENTITY", "Revision", revision.id))])
    /\ UNCHANGED <<tags, ruleGroups, nextTagId, nextRuleGroupId, ncalls>>

\* (the renamed copy is stored under a tagCode of its own)
duplicateTag_SaveDuplicate_FreshCode(p) ==
    LET c == calls[p]
        duplicate == [c.newTag EXCEPT !.name = c.args.name, !.tagCode = c.newTag.id]
    IN
    /\ c.pc = "dup_savetag"
    /\ tags' = SavedTags(duplicate)
    /\ SetCall(p, Finish([c EXCEPT !.newTag = duplicate,
                            !.saves = Append(@, Audit("UPDATE_PROPERTIES", "Tag", duplicate.id))],
                         "ok"))
    /\ UNCHANGED <<revisions, ruleGroups, nextTagId, nextRuleGroupId, ncalls>>

duplicateTag_SaveDuplicate(p) ==
    LET c == calls[p]
        duplicate == [c.newTag EXCEPT !.name = c.args.name]
    IN
    /\ c.pc = "dup_savetag"
    /\ tags' = SavedTags(duplicate)
    /\ SetCall(p, Finish([c EXCEPT !.newTag = duplicate,
                            !.saves = Append(@, Audit("UPDATE_PROPERTIES", "Tag", duplicate.id))],
                         "ok"))
    /\ UNCHANGED <<revisions, ruleGroups, nextTagId, nextRuleGroupId, ncalls>>

(* ------------------------------ createTag ------------------------------ *)
RevisionIdSpace == Revs \cup {0}

\* TagCreateInput: the schema fills in width = 0, height = 0 and
\* auto_load = false when the request leaves them out
CreateInputs ==
    [revision_id : RevisionIdSpace, name : Names, type : TagTypes,
     width : Opt(Dims), height : Opt(Dims), auto_load : Opt(BOOLEAN)]
\* the requests that leave width and height to their defaults
PlainCreateInputs == {data \in CreateInputs : data.width = <<>> /\ data.height = <<>>}

TagCreateInput(req) ==
    [req EXCEPT !.width = <<OrDefault(@, 0)>>, !.height = <<OrDefault(@, 0)>>,
                !.auto_load = <<OrDefault(@, FALSE)>>]

createTag_Begin(p, Inputs) ==
    \E req \in Inputs : LET data == TagCreateInput(req) IN
        /\ CanAllocate(0)
        /\ StartCall(p, "createTag", data, "create", RevisionFound(data.revision_id),
                     NullTag,
                     IF RevisionFound(data.revision_id) THEN revisions[data.revision_id]
                     ELSE NullRevision)

createTag_Rejects(data) == data.type = "PLACEMENT" /\ data.auto_load = <<TRUE>>

\* (the resolver goes on to createTagSkeleton whatever the type and auto_load)
createTag_Body_Unvalidated(p) ==
    LET c == calls[p] IN
    /\ c.pc = "create"
    /\ SetCall(p, [c EXCEPT !.pc = "skeleton_tag"])
    /\ DbUnchanged
    /\ UNCHANGED ncalls

createTag_Body(p) ==
    LET c == calls[p] IN
    /\ c.pc = "create"
    /\ SetCall(p, IF createTag_Rejects(c.args) THEN Finish(c, "ValidationFailed")
                  ELSE [c EXCEPT !.pc = "skeleton_tag"])
    /\ DbUnchanged
    /\ UNCHANGED ncalls

\* createTagSkeleton, first write: the new Tag, with a fresh tagCode and no
\* RuleGroups, pointing at the Revision
createTagSkeleton_SaveTag(p) ==
    LET c == calls[p]
        d == c.args
        newTag == NewTag(nextTagId, c.revision, nextTagId, d.name, d.type,
                         d.width[1], d.height[1], d.auto_load[1])
    IN
    /\ c.pc = "skeleton_tag"
    /\ tags' = SavedTags(newTag)
    /\ nextTagId' = nextTagId + 1
    /\ SetCall(p, [c EXCEPT !.pc = "skeleton_link", !.newTag = newTag,
                            !.saves = Append(@, Audit("ADD_LINKED_ENTITY", "Tag", newTag.id))])
    /\ UNCHANGED <<revisions, ruleGroups, nextRuleGroupId, ncalls>>

\* createTagSkeleton, second write: the Revision with the new id appended
createTagSkeleton_LinkRevision(p) ==
    LET c == calls[p]
        revision == [c.revision EXCEPT !.tagIds = Append(@, c.newTag.id)]
    IN
    /\ c.pc = "skeleton_link"
    /\ revisions' = SavedRevisions(revision)
    /\ SetCall(p, Finish([c EXCEPT !.revision = revision,
                            !.savedAfter = RevisionSavers(p),
                            !.saves = Append(@, Audit("ADD_LINKED_ENTITY", "Revision", revision.id))],
                         "ok"))
    /\ UNCHANGED <<tags, ruleGroups, nextTagId, nextRuleGroupId, ncalls>>

(* ------------------------ failures and returns ------------------------- *)
\* the positions at which a resolver awaits the store
StorePcs ==
    {"reorder", "unlink_read", "unlink_save", "cascade", "cascading", "update",
     "dup_readrev", "dup_branch", "dup_saverev", "dup_savetag",
     "skeleton_tag", "skeleton_link"}

\* the awaited store call rejects: the resolver throws and does nothing more
StoreFailure(p) ==
    /\ calls[p].pc \in StorePcs
    /\ SetCall(p, Finish(calls[p], "PersistenceFailure"))
    /\ DbUnchanged
    /\ UNCHANGED ncalls

\* the response is sent and the slot is free again
Return(p) ==
    /\ calls[p].pc = "done"
    /\ SetCall(p, IdleCall)
    /\ DbUnchanged
    /\ UNCHANGED ncalls

(* --------------------------- specification ----------------------------- *)
\* Requests are served one at a time, through slot 1.
\* Spec: the whole lifecycle.  Every resolver runs; updateTag requests carry
\* at most one optional field, createTag requests leave width and height to
\* their defaults and new_order holds ids as the API rendered them.
Next ==
    \/ updateRuleGroupsOrder_Begin(1, CanonicalReorderInputs)
    \/ updateRuleGroupsOrder_Body(1)
    \/ deleteTag_Begin(1)
    \/ deleteTag_Unlink(1)
    \/ deleteTag_SaveRevision(1)
    \/ deleteModelCascading_Start(1)
    \/ deleteModelCascading_Step(1)
    \/ updateTag_Begin(1, SingleFieldUpdateInputs)
    \/ updateTag_Body(1)
    \/ duplicateTag_Begin(1)
    \/ duplicateTag_ReadRevision(1)
    \/ duplicateTag_Branch(1)
    \/ duplicateTag_SaveRevision(1)
    \/ duplicateTag_SaveDuplicate(1)
    \/ createTag_Begin(1, PlainCreateInputs)
    \/ createTag_Body(1)
    \/ createTagSkeleton_SaveTag(1)
    \/ createTagSkeleton_LinkRevision(1)
    \/ Authorize(1)
    \/ StoreFailure(1)
    \/ Return(1)

Spec == Init /\ [][Next]_vars

\* SpecReorder: updateRuleGroupsOrder alone, with every new_order of id
\* strings in either case.
NextReorder ==
    \/ updateRuleGroupsOrder_Begin(1, ReorderInputs)
    \/ updateRuleGroupsOrder_Body(1)
    \/ Authorize(1)
    \/ StoreFailure(1)
    \/ Return(1)

SpecReorder == Init /\ [][NextReorder]_vars

\* SpecUpdate: updateTag alone, with up to MaxPresent optional fields (the
\* `type` key among them).
NextUpdate ==
    \/ updateTag_Begin(1, FewFieldsUpdateInputs)
    \/ updateTag_Body(1)
    \/ Authorize(1)
    \/ StoreFailure(1)
    \/ Return(1)

SpecUpdate == Init /\ [][NextUpdate]_vars

\* SpecConcurrent: two requests, one in each slot, among createTag,
\* duplicateTag and deleteTag; their steps interleave freely, as the awaits
\* of two resolvers running on one event loop do.
ConcurrentCreateInputs == {data \in PlainCreateInputs : data.auto_load = <<>>}

NextConcurrent ==
    \/ \E p \in Procs : deleteTag_Begin(p)
    \/ \E p \in Procs : deleteTag_Unlink(p)
    \/ \E p \in Procs : deleteTag_SaveRevision(p)
    \/ \E p \in Procs : deleteModelCascading_Start(p)
    \/ \E p \in Procs : deleteModelCascading_Step(p)
    \/ \E p \in Procs : duplicateTag_Begin(p)
    \/ \E p \in Procs : duplicateTag_ReadRevision(p)
    \/ \E p \in Procs : duplicateTag_Branch(p)
    \/ \E p \in Procs : duplicateTag_SaveRevision(p)
    \/ \E p \in Procs : duplicateTag_SaveDuplicate(p)
    \/ \E p \in Procs : createTag_Begin(p, ConcurrentCreateInputs)
    \/ \E p \in Procs : createTag_Body(p)
    \/ \E p \in Procs : createTagSkeleton_SaveTag(p)
    \/ \E p \in Procs : createTagSkeleton_LinkRevision(p)
    \/ \E p \in Procs : Authorize(p)
    \/ \E p \in Procs : StoreFailure(p)

SpecConcurrent == Init /\ [][NextConcurrent]_vars

TypeOK ==
    /\ DOMAIN tags \subseteq TagIdSpace
    /\ DOMAIN revisions = Revs
    /\ ruleGroups \subseteq RuleGroupIdSpace
    /\ nextTagId \in 1..(MaxTags + 1)
    /\ nextRuleGroupId \in 1..(MaxRuleGroups + 1)
    /\ ncalls \in 0..MaxCalls

(* ------------------------------ claims --------------------------------- *)
IsDone(c, op) == c.op = op /\ c.pc = "done"

\* the store is exactly as the request found it
StoreAsFound(c) ==
    /\ tags = c.pre.tags
    /\ revisions = c.pre.revisions
    /\ ruleGroups = c.pre.ruleGroups

Count(s, x) == Cardinality({i \in 1..Len(s) : s[i] = x})
IsPermutation(s, t) ==
    /\ Len(s) = Len(t)
    /\ \A x \in Range(s) \cup Range(t) : Count(s, x) = Count(t, x)

AsStrings(ids) == [i \in 1..Len(ids) |-> toString(ids[i])]

C2_NoAutoLoadPlacement ==
    /\ \A t \in DOMAIN tags : ~(tags[t].type = "PLACEMENT" /\ tags[t].autoLoad = TRUE)
    /\ \A p \in Procs : LET c == calls[p] IN
        /\ (IsDone(c, "createTag") /\ c.args.type = "PLACEMENT" /\ c.args.auto_load = <<TRUE>>) =>
              /\ c.result # "ok"
              /\ c.granted => c.result = "ValidationFailed"
              /\ StoreAsFound(c)
        /\ (/\ IsDone(c, "updateTag") /\ c.args.tag_id \in DOMAIN c.pre.tags
            /\ c.pre.tags[c.args.tag_id].type = "PLACEMENT"
            /\ c.args.auto_load = <<TRUE>>) =>
              /\ c.result # "ok"
              /\ c.granted => c.result \in {"ValidationFailed", "PersistenceFailure"}
              /\ StoreAsFound(c)

\* an updateTag that asked for autoLoad on a PLACEMENT Tag and was rejected,
\* while another Tag of type HEAD does have autoLoad set
C2_Witness ==
    \E p \in Procs : LET c == calls[p] IN
        /\ IsDone(c, "updateTag") /\ c.result = "ValidationFailed"
        /\ c.tag.type = "PLACEMENT" /\ c.args.auto_load = <<TRUE>>
        /\ \E t \in DOMAIN tags : tags[t].type = "HEAD" /\ tags[t].autoLoad = TRUE

\* every id of new is in old, and in the same relative order
OrderPreserved(old, new) ==
    \A i, j \in 1..Len(new) : i < j =>
        \E k, l \in 1..Len(old) : k < l /\ old[k] = new[i] /\ old[l] = new[j]

C3_CreatePart(c) ==
    (IsDone(c, "createTag") /\ c.result = "ok") =>
        LET t == c.newTag.id
            rev == c.args.revision_id
        IN  /\ t \in DOMAIN tags /\ t \notin DOMAIN c.pre.tags
            /\ tags[t].revisionId = rev
            /\ rev \in DOMAIN revisions /\ revisions[rev].id = rev
            /\ t \in Range(revisions[rev].tagIds)

C3_DuplicatePart(c) ==
    (IsDone(c, "duplicateTag") /\ c.result = "ok") =>
        LET t == c.newTag.id
            rev == c.pre.tags[c.args.tag_id].revisionId
        IN  /\ t \in DOMAIN tags /\ t \notin DOMAIN c.pre.tags
            /\ tags[t].revisionId = rev
            /\ rev \in DOMAIN revisions /\ revisions[rev].id = rev
            /\ t \in Range(revisions[rev].tagIds)
            /\ tags[t].name = c.args.name

\* C3 as stated: after a successful createTag or duplicateTag the new Tag is
\* in the tagIds of the Revision its revisionId names; for duplicateTag that
\* is the source's Revision, the copy carries the new name and tagIds holds
\* both the source and the copy.
C3_Original ==
    \A p \in Procs : LET c == calls[p] IN
        /\ C3_CreatePart(c)
        /\ C3_DuplicatePart(c)
        /\ (IsDone(c, "duplicateTag") /\ c.result = "ok") =>
              c.args.tag_id \in Range(revisions[c.pre.tags[c.args.tag_id].revisionId].tagIds)

\* C3 amended: as above, but of the Revision's tagIds only this holds: it is
\* the list the Revision had before the call with the copy's id appended, so
\* it holds the source exactly when it held the source before.
C3_LinkAfterCreateOrDuplicate ==
    \A p \in Procs : LET c == calls[p] IN
        /\ C3_CreatePart(c)
        /\ C3_DuplicatePart(c)
        /\ (IsDone(c, "duplicateTag") /\ c.result = "ok") =>
              LET rev == c.pre.tags[c.args.tag_id].revisionId IN
              revisions[rev].tagIds = Append(c.pre.revisions[rev].tagIds, c.newTag.id)

\* a renamed duplicate with RuleGroups of its own, linked next to its source
C3_Witness ==
    \E p \in Procs : LET c == calls[p] IN
        /\ IsDone(c, "duplicateTag") /\ c.result = "ok"
        /\ c.args.name # c.tag.name
        /\ c.args.tag_id \in Range(revisions[c.tag.revisionId].tagIds)
        /\ c.newTag.id \in Range(revisions[c.tag.revisionId].tagIds)
        /\ Len(c.newTag.ruleGroupIds) > 0

C5_PreviewDeleteIsDryRun ==
    \A p \in Procs : LET c == calls[p] IN
        /\ (c.op = "deleteTag" /\ c.args.preview = TRUE) =>
              /\ StoreAsFound(c)
              /\ c.revision = NullRevision
              /\ c.saves = <<>>
              /\ c.cascade \in {"none", "preview"}
              /\ c.result = "ok" =>
                    /\ c.cascade = "preview"
                    /\ c.acks = Owned(c.pre.tags[c.args.tag_id])
        /\ (c.op = "deleteTag" /\ c.args.preview = FALSE) => c.cascade \in {"none", "real"}

\* a finished preview of a Tag that owns RuleGroups
C5_Witness ==
    \E p \in Procs : LET c == calls[p] IN
        /\ IsDone(c, "deleteTag") /\ c.args.preview = TRUE /\ c.result = "ok"
        /\ Cardinality(c.acks) > 1
        /\ c.args.tag_id \in DOMAIN tags

\* C6: tagCode stability.  While a request runs and after it, every Tag
\* that existed when it started and still exists has the tagCode it had, and
\* the copy a duplicateTag makes carries its source's tagCode at every point
\* (so, link by link, the tagCode of the root of its lineage).
C6_TagCodeStable ==
    \A p \in Procs : LET c == calls[p] IN
        c.pc # "idle" =>
            /\ \A t \in DOMAIN c.pre.tags \cap DOMAIN tags :
                   tags[t].tagCode = c.pre.tags[t].tagCode
            /\ (c.op = "duplicateTag" /\ c.newTag # NullTag) =>
                   /\ c.newTag.tagCode = c.pre.tags[c.args.tag_id].tagCode
                   /\ c.newTag.id \in DOMAIN tags =>
                          tags[c.newTag.id].tagCode = c.pre.tags[c.args.tag_id].tagCode
            /\ (IsDone(c, "duplicateTag") /\ c.result = "ok") => c.newTag.id \in DOMAIN tags

\* a finished duplicate of a Tag that is itself a duplicate: it has the
\* tagCode of the lineage's root, which is neither its id nor its source's
C6_Witness ==
    \E p \in Procs : LET c == calls[p] IN
        /\ IsDone(c, "duplicateTag") /\ c.result = "ok"
        /\ c.tag.tagCode # c.tag.id
        /\ tags[c.newTag.id].tagCode = c.tag.tagCode
        /\ tags[c.newTag.id].name # c.tag.name

\* C7: a successful updateTag sets each of name, isActive, width, height and
\* autoLoad to the request's value when the request carries one and leaves
\* it as it was otherwise; type, tagCode, revisionId, ruleGroupIds (and id,
\* orgId) keep their values whatever the request carries, and nothing else
\* in the store changes.
C7_PartialUpdate ==
    \A p \in Procs : LET c == calls[p] IN
        (IsDone(c, "updateTag") /\ c.result = "ok") =>
            LET d == c.args
                old == c.pre.tags[d.tag_id]
                new == tags[d.tag_id]
            IN  /\ new.name = OrDefault(d.name, old.name)
                /\ new.isActive = OrDefault(d.is_active, old.isActive)
                /\ new.width = OrDefault(d.width, old.width)
                /\ new.height = OrDefault(d.height, old.height)
                /\ new.autoLoad = OrDefault(d.auto_load, old.autoLoad)
                /\ new.type = old.type
                /\ new.tagCode = old.tagCode
                /\ new.revisionId = old.revisionId
                /\ new.ruleGroupIds = old.ruleGroupIds
                /\ new.id = old.id /\ new.orgId = old.orgId
                /\ \A t \in DOMAIN tags \ {d.tag_id} : tags[t] = c.pre.tags[t]
                /\ DOMAIN tags = DOMAIN c.pre.tags
                /\ revisions = c.pre.revisions
                /\ ruleGroups = c.pre.ruleGroups

\* an update that carried only a width, on a Tag that had been made
\* inactive before: the width is set and isActive is not back at its
\* default
C7_Witness ==
    \E p \in Procs : LET c == calls[p] IN
        /\ IsDone(c, "updateTag") /\ c.result = "ok"
        /\ Present(c.args.width) /\ c.args.width[1] # c.pre.tags[c.args.tag_id].width
        /\ tags[c.args.tag_id].width = c.args.width[1]
        /\ c.args.is_active = <<>>
        /\ tags[c.args.tag_id].isActive = FALSE

\* the capability each resolver has to hold
RequiredCapability(op) ==
    CASE op = "createTag" -> "create"
      [] op = "duplicateTag" -> "create"
      [] op = "updateTag" -> "edit"
      [] op = "deleteTag" -> "delete"
      [] op = "updateRuleGroupsOrder" -> "edit"

\* C8: every resolver asks for its capability (create, create, edit, delete,
\* edit); no step of its body runs unless it was granted; and a request that
\* was denied ends in the authorization error with nothing created, saved or
\* deleted: the store is as the request found it.
C8_DeniedChangesNothing ==
    \A p \in Procs : LET c == calls[p] IN
        c.pc # "idle" =>
            /\ c.cap = RequiredCapability(c.op)
            /\ c.pc \notin {"auth", "done"} => c.granted
            /\ c.result = "AuthDenied" => ~c.granted
            /\ (c.pc = "done" /\ ~c.granted) =>
                  /\ c.result \in {"AuthDenied", "NotFound"}
                  /\ StoreAsFound(c)
                  /\ c.saves = <<>>
                  /\ c.newTag = NullTag
                  /\ c.cascade = "none"

\* a deleteTag (no preview) of an existing Tag that was denied
C8_Witness ==
    \E p \in Procs : LET c == calls[p] IN
        /\ IsDone(c, "deleteTag") /\ c.result = "AuthDenied"
        /\ c.args.preview = FALSE
        /\ c.args.tag_id \in DOMAIN tags

\* a createTag for an existing Revision that asks for a PLACEMENT with autoLoad
C9_Case(c) ==
    /\ IsDone(c, "createTag")
    /\ c.args.revision_id \in DOMAIN c.pre.revisions
    /\ c.args.type = "PLACEMENT" /\ c.args.auto_load = <<TRUE>>

\* C9 as stated: such a request from an actor without create access fails
\* with the validation error, not with the authorization error.
C9_Original ==
    \A p \in Procs : LET c == calls[p] IN
        (C9_Case(c) /\ ~c.granted) => c.result = "ValidationFailed"

\* C9 amended: the validation runs inside the continuation the access check
\* guards, before any persistence: such a request fails with the
\* authorization error when access is denied and with the validation error
\* when it is granted, and in both cases nothing is stored.
C9_ValidationAfterAccess ==
    \A p \in Procs : LET c == calls[p] IN
        C9_Case(c) =>
            /\ ~c.granted => c.result = "AuthDenied"
            /\ c.granted => c.result = "ValidationFailed"
            /\ StoreAsFound(c)
            /\ c.saves = <<>>

\* both outcomes side by side cannot be one state; the witness is the denied one
C9_Witness ==
    \E p \in Procs : LET c == calls[p] IN
        C9_Case(c) /\ ~c.granted /\ c.result = "AuthDenied"

\* C10: in a deleteTag without preview the Revision is saved, with the Tag
\* filtered out, before deleteModelCascading starts: whenever the request
\* has deleted the Tag or one of its RuleGroups, or the cascade has started
\* (failed midway or not), the Revision no longer lists the Tag; and a
\* request that fails before the Revision was saved has deleted nothing.
C10_UnlinkBeforeCascade ==
    \A p \in Procs : LET c == calls[p] IN
        (c.op = "deleteTag" /\ c.args.preview = FALSE /\ c.tag # NullTag) =>
            LET id == c.tag.id
                rev == c.tag.revisionId
                unlinked == /\ id \notin Range(revisions[rev].tagIds)
                            /\ c.saves = <<Audit("DELETE_LINKED_ENTITY", "Revision", rev)>>
            IN  /\ (tags # c.pre.tags \/ ruleGroups # c.pre.ruleGroups) => unlinked
                /\ c.cascade = "real" => unlinked
                /\ c.acks # {} => unlinked
                /\ (c.pc = "done" /\ c.result # "ok" /\ c.saves = <<>>) =>
                      /\ StoreAsFound(c)
                      /\ c.acks = {}

\* a cascade that failed midway: something is deleted, something is not,
\* and the Tag is off its Revision
C10_Witness ==
    \E p \in Procs : LET c == calls[p] IN
        /\ IsDone(c, "deleteTag") /\ c.result = "PersistenceFailure"
        /\ c.acks # {} /\ c.pending # {}
        /\ c.tag.id \in Range(c.pre.revisions[c.tag.revisionId].tagIds)
        /\ c.tag.id \notin Range(revisions[c.tag.revisionId].tagIds)

LinkOps == {"createTag", "duplicateTag", "deleteTag"}

\* invariant I1: every Tag is listed by the Revision it names, and every
\* listed id is a Tag of that Revision
I1 ==
    /\ \A t \in DOMAIN tags :
           /\ RevisionFound(tags[t].revisionId)
           /\ t \in Range(revisions[tags[t].revisionId].tagIds)
    /\ \A r \in DOMAIN revisions : \A t \in Range(revisions[r].tagIds) :
           TagFound(t) /\ tags[t].revisionId = r

\* requests p and q (createTag, duplicateTag or a deleteTag that is not a
\* preview) have both read Revision r before either saved it, both have
\* saved it, and p's save is the later one
StaleSaveAfter(p, q) ==
    LET c == calls[p]
        d == calls[q]
    IN  /\ p # q
        /\ c.op \in LinkOps /\ d.op \in LinkOps
        /\ SavedRevision(c) /\ SavedRevision(d)
        /\ c.revision.id = d.revision.id
        /\ c.readAfter = {} /\ d.readAfter = {}
        /\ q \in c.savedAfter

\* C11: when two requests among createTag, duplicateTag and non-preview
\* deleteTag both read the Revision before either saves it, the stored
\* tagIds is exactly the list the later save wrote and the earlier request's
\* link change is gone from it: the id a create or duplicate appended is not
\* listed, and the id a delete filtered out is listed again (unless the later
\* request deletes that same Tag).
C11_LastWriteWins ==
    \A p, q \in Procs : StaleSaveAfter(p, q) =>
        LET c == calls[p]
            d == calls[q]
            tagIds == revisions[c.revision.id].tagIds
        IN  /\ tagIds = c.revision.tagIds
            /\ d.op \in {"createTag", "duplicateTag"} => d.newTag.id \notin Range(tagIds)
            /\ (/\ d.op = "deleteTag"
                /\ d.tag.id \in Range(d.pre.revisions[d.revision.id].tagIds)
                /\ ~(c.op = "deleteTag" /\ c.tag.id = d.tag.id)) =>
                   d.tag.id \in Range(tagIds)

\* both requests have completed successfully after such an interleaving and
\* I1 is broken: a Tag that exists is missing from its Revision's tagIds
C11_Witness ==
    \E p, q \in Procs :
        /\ StaleSaveAfter(p, q)
        /\ calls[p].pc = "done" /\ calls[p].result = "ok"
        /\ calls[q].pc = "done" /\ calls[q].result = "ok"
        /\ ~I1
        /\ \E t \in DOMAIN tags : t \notin Range(revisions[tags[t].revisionId].tagIds)

====
